---- MODULE Spec2Model ----
(***************************************************************************)
(* Model of crystalize-group, src/src/index.js: the Group route builder    *)
(* (addGroup, addHandlers, before, after, around, catch, group) and the    *)
(* recursive flattening collectRoutes.                                     *)
(*                                                                         *)
(* JavaScript values are tagged records (field k is the tag).  Strings are *)
(* sequences of characters, so that indexOf("/"), trim() and template      *)
(* concatenation are computed as the code computes them.  Group instances  *)
(* are references ([k |-> "Group", id |-> i]) into the heap `groups`.       *)
(*                                                                         *)
(* The verb shortcuts (delete/get/patch/post/put, lines 210-240) end in    *)
(* `return ...,` followed by `}`, which does not parse; they are left out  *)
(* and the rest of the file is modelled as written.                        *)
(***************************************************************************)
EXTENDS Integers, Sequences, FiniteSets, TLC

VARIABLES
    groups,     \* heap of Group instances: groups[i] is the i-th constructed
    lastOp,     \* the last public call: [op, g, args, err]
    stack,      \* call stack of the collectRoutes in progress (<<>>: none)
    routes,     \* value returned by the last completed collectRoutes
    prev,       \* history: outcome of the collectRoutes before it, if no
                \*   builder call came in between
    treeAtCall, \* history: the heap when the current collectRoutes was called
    beforeLog,  \* history: per group, the middlewares given to before, in call order
    afterLog    \* history: per group, the middlewares given to after, in call order

vars == <<groups, lastOp, stack, routes, prev, treeAtCall, beforeLog, afterLog>>

---------------------------------------------------------------------------
(* Bounds *)

\* Size of the heap: Group instances constructed (the root included) plus
\* entries registered in them (items + before + after + catchers).
MaxSize == 4
\* Nested collectRoutes activations explored.
MaxDepth == 3

---------------------------------------------------------------------------
(* JavaScript values *)

Null == [k |-> "null"]
Undefined == [k |-> "undefined"]
Str(s) == [k |-> "string", s |-> s]
Arr(e) == [k |-> "array", elems |-> e]
GroupRef(i) == [k |-> "Group", id |-> i]
\* A function; respondsTo is its own property of that name (Undefined on a
\* plain function).
Fn(n, rt) == [k |-> "function", id |-> n, respondsTo |-> rt]
Obj(name, rt, cb) == [k |-> "object", name |-> name, respondsTo |-> rt, callback |-> cb]
\* An "around" middleware object.
Around(b, a) == [k |-> "around", before |-> b, after |-> a]

IsNullish(v) == v.k \in {"null", "undefined"}
IsString(v) == v.k = "string"
IsFunction(v) == v.k = "function"
IsGroup(v) == v.k = "Group"

\* String literals used by the code and by the inputs.
S_then == Str(<<"t", "h", "e", "n">>)
S_catch == Str(<<"c", "a", "t", "c", "h">>)

\* path.indexOf("/") === 0
StartsWithSlash(s) == Len(s) > 0 /\ s[1] = "/"

RECURSIVE TrimLeft(_)
TrimLeft(s) == IF Len(s) > 0 /\ s[1] = " " THEN TrimLeft(Tail(s)) ELSE s
RECURSIVE TrimRight(_)
TrimRight(s) ==
    IF Len(s) > 0 /\ s[Len(s)] = " " THEN TrimRight(SubSeq(s, 1, Len(s) - 1)) ELSE s
\* method.trim()
Trim(s) == TrimRight(TrimLeft(s))

\* The error classes registered on Group.errors.
GroupErrors == {"InvalidCatchError", "InvalidHandlerSpecificationError"}
\* throw new Group.errors.<name>(...): constructing an unregistered class is
\* `new undefined(...)`, a TypeError.
NewGroupError(name) == IF name \in GroupErrors THEN name ELSE "TypeError"

\* new Group(): the fields set by the constructor.
NewGroup ==
    [catchers |-> <<>>, middlewares |-> [after |-> <<>>, before |-> <<>>], items |-> <<>>]

\* Outcome of a builder method: the error thrown ("none": returned) and the
\* receiver (`this`) as the call leaves it.
Thrown(e, G) == [err |-> e, this |-> G]
Returned(G) == [err |-> "none", this |-> G]

---------------------------------------------------------------------------
(* Builder methods, as functions of the receiver G and the arguments *)

\* items.push(item)
PushItem(G, item) == [G EXCEPT !.items = Append(@, item)]

\* addGroup with the push moved above the path check.
addGroup_pushFirst(G, path, group) ==
    LET p == IF IsGroup(path) /\ IsNullish(group) THEN Null ELSE path
        g == IF IsGroup(path) /\ IsNullish(group) THEN path ELSE group
        pushed == PushItem(G, [type |-> "group", path |-> p, group |-> g])
    IN  IF ~IsNullish(p) /\ ~IsString(p)
        THEN Thrown("TypeError", pushed)
        ELSE IF ~IsNullish(p) /\ ~StartsWithSlash(p.s)
        THEN Thrown(NewGroupError("InvalidHandlerSpecificationError"), pushed)
        ELSE Returned(pushed)

addGroup(G, path, group) ==
    LET p == IF IsGroup(path) /\ IsNullish(group) THEN Null ELSE path
        g == IF IsGroup(path) /\ IsNullish(group) THEN path ELSE group
    IN  IF ~IsNullish(p) /\ ~IsString(p)
        THEN Thrown("TypeError", G)             \* path.indexOf is not a function
        ELSE IF ~IsNullish(p) /\ ~StartsWithSlash(p.s)
        THEN Thrown(NewGroupError("InvalidHandlerSpecificationError"), G)
        ELSE Returned(PushItem(G, [type |-> "group", path |-> p, group |-> g]))

\* handler.respondsTo
RespondsTo(h) == IF h.k \in {"object", "function"} THEN h.respondsTo ELSE Undefined
ValidRespondsTo(h) == RespondsTo(h) = S_then \/ RespondsTo(h) = S_catch

\* The handler the mapping callback returns for one element.
Normalize(h) == IF IsFunction(h) THEN Obj(Null, S_then, h) ELSE h

\* The loop inside the mapping callback runs over the list as passed in,
\* before any element is normalized; the first element it rejects decides.
FirstRejected(handlers) ==
    LET bad == {i \in 1..Len(handlers) : IsGroup(handlers[i]) \/ ~ValidRespondsTo(handlers[i])}
    IN  IF bad = {} THEN 0 ELSE CHOOSE i \in bad : \A j \in bad : i <= j

\* addHandlers once `methods` is an array.
addHandlersArray(G, methods, path, handlers) ==
    IF ~IsString(path) \/ ~StartsWithSlash(path.s)
    THEN Thrown(NewGroupError("InvalidPathError"), G)
    ELSE IF Len(methods) = 0
    THEN Thrown(NewGroupError("InvalidMethodsError"), G)
    ELSE IF \E i \in 1..Len(methods) : ~IsString(methods[i]) \/ Len(Trim(methods[i].s)) = 0
    THEN Thrown(NewGroupError("InvalidMethodError"), G)
    ELSE IF Len(handlers) = 0
    THEN Thrown(NewGroupError("InvalidHandlersError"), G)
    ELSE IF FirstRejected(handlers) # 0
    THEN IF IsGroup(handlers[FirstRejected(handlers)])
         THEN Thrown(NewGroupError("HandlerCannotBeGroupError"), G)
         ELSE Thrown(NewGroupError("InvalidHandlerSpecificationError"), G)
    ELSE Returned(PushItem(G, [type |-> "handler",
                               methods |-> Arr(methods),
                               path |-> path,
                               handlers |-> [i \in 1..Len(handlers) |-> Normalize(handlers[i])]]))

\* addHandlers(methods, path, ...handlers): `handlers` is the rest array.  A
\* non-array `methods` re-enters with the rest array passed as ONE argument.
addHandlers(G, methods, path, handlers) ==
    IF methods.k # "array"
    THEN IF IsNullish(methods)
         THEN addHandlersArray(G, <<>>, path, <<Arr(handlers)>>)
         ELSE addHandlersArray(G, <<methods>>, path, <<Arr(handlers)>>)
    ELSE addHandlersArray(G, methods.elems, path, handlers)

\* this.middlewares.after.push(middleware)
after(G, middleware) ==
    Returned([G EXCEPT !.middlewares.after = Append(@, middleware)])

\* before with push in place of unshift.
before_push(G, middleware) ==
    Returned([G EXCEPT !.middlewares.before = Append(@, middleware)])

\* this.middlewares.before.unshift(middleware)
before(G, middleware) ==
    Returned([G EXCEPT !.middlewares.before = <<middleware>> \o @])

\* Reading .before of null or undefined is a TypeError; a property the object
\* lacks reads as undefined.
around(G, middleware) ==
    IF IsNullish(middleware)
    THEN Thrown("TypeError", G)
    ELSE after(before(G, middleware.before).this, middleware.after)

\* `handler` is not bound anywhere in scope of catch: evaluating the argument
\* of push throws before push is called.
catch(G, callback) ==
    IF ~IsFunction(callback)
    THEN Thrown(NewGroupError("InvalidCatchError"), G)
    ELSE Thrown("ReferenceError", G)

\* A builder callback handed to group()/new Group(), by what it does with the
\* group it is given.
RunCallback(cb, G) ==
    CASE cb.id = "cbHandler" ->
            addHandlers(G, Arr(<<Str(<<"g", "e", "t">>)>>), Str(<<"/", "x">>),
                        <<Obj(Null, S_then, Fn("fn", Undefined))>>)
      [] cb.id = "cbCatch" -> catch(G, Fn("c1", Undefined))
      [] OTHER -> Returned(G)

\* new Group(cb)
Group(cb) == IF IsNullish(cb) THEN Returned(NewGroup) ELSE RunCallback(cb, NewGroup)

\* group(path, cb) on heap[g].  The child is constructed (and its callback
\* run) before addGroup looks at the path; it takes the next free reference.
group(heap, g, path, cb) ==
    LET p == IF IsFunction(path) THEN Null ELSE path
        c == IF IsFunction(path) THEN path ELSE cb
        child == Group(c)
        id == Len(heap) + 1
        r == addGroup(heap[g], p, GroupRef(id))
    IN  IF child.err # "none"
        THEN [err |-> child.err, heap |-> Append(heap, child.this)]
        ELSE [err |-> r.err, heap |-> Append([heap EXCEPT ![g] = r.this], child.this)]

---------------------------------------------------------------------------
(* collectRoutes *)

\* The decimal digits of i, for `GroupCatcher_${ i }`.
Digits(i) == <<ToString(i)>>

\* this.catchers.map((catcher, i) => ({ name, respondsTo: "catch", callback }))
CatcherHandlers(G) ==
    [i \in 1..Len(G.catchers) |->
        Obj(Str(<<"G", "r", "o", "u", "p", "C", "a", "t", "c", "h", "e", "r", "_">>
                \o Digits(i - 1)),
            S_catch, G.catchers[i])]

\* appendToRoutes: the route pushed for `route` by the group G.
appendToRoutes(G, route) ==
    [route EXCEPT !.handlers =
        G.middlewares.before \o route.handlers \o G.middlewares.after \o CatcherHandlers(G)]

\* item.path || ""
PathOrEmpty(path) == IF IsString(path) /\ Len(path.s) > 0 THEN path.s ELSE <<>>

\* { ...subRoute, path: `${ item.path || "" }${ subRoute.path }` }
Prefixed(item, subRoute) ==
    [subRoute EXCEPT !.path = Str(PathOrEmpty(item.path) \o subRoute.path.s)]

\* One activation of collectRoutes: the group, the index of the item the
\* loop is at, and the local `routes`.
Frame(g) == [group |-> g, i |-> 1, routes |-> <<>>]

\* One step of the innermost activation: enter a subgroup ("call"), finish an
\* item or return to the caller's loop ("run"), return to the public caller
\* ("return") or throw ("throw": nothing in the file catches, so it unwinds
\* every activation).
collectStep(heap, stk) ==
    LET n == Len(stk)
        top == stk[n]
        G == heap[top.group]
    IN  IF top.i > Len(G.items)
        THEN IF n = 1
             THEN [kind |-> "return", stack |-> <<>>, err |-> "none", routes |-> top.routes]
             ELSE LET caller == stk[n - 1]
                      P == heap[caller.group]
                      item == P.items[caller.i]
                      wrapped == [j \in 1..Len(top.routes) |->
                                     appendToRoutes(P, Prefixed(item, top.routes[j]))]
                  IN  [kind |-> "run",
                       stack |-> [SubSeq(stk, 1, n - 1) EXCEPT
                                     ![n - 1] = [caller EXCEPT !.i = @ + 1,
                                                               !.routes = @ \o wrapped]],
                       err |-> "none", routes |-> <<>>]
        ELSE LET item == G.items[top.i]
             IN  IF item.type = "group"
                 THEN IF IsGroup(item.group)
                      THEN [kind |-> "call", stack |-> Append(stk, Frame(item.group.id)),
                            err |-> "none", routes |-> <<>>]
                      ELSE [kind |-> "throw", stack |-> <<>>, err |-> "TypeError",
                            routes |-> <<>>]
                 ELSE IF item.type = "route"
                 THEN [kind |-> "run",
                       stack |-> [stk EXCEPT ![n] = [top EXCEPT !.i = @ + 1,
                                     !.routes = Append(@, appendToRoutes(G, item))]],
                       err |-> "none", routes |-> <<>>]
                 ELSE [kind |-> "throw", stack |-> <<>>, err |-> "Error", routes |-> <<>>]

---------------------------------------------------------------------------
(* Inputs *)

S_get == Str(<<"g", "e", "t">>)
S_blank == Str(<<" ">>)
S_x == Str(<<"/", "x">>)
S_c == Str(<<"/", "c">>)
S_nope == Str(<<"n", "o", "p", "e">>)

fn == Fn("fn", Undefined)
\* A function that carries its own respondsTo property.
fnThen == Fn("fnThen", S_then)
hThen == Obj(Null, S_then, fn)
hBogus == Obj(Null, Str(<<"x">>), fn)
m1 == Fn("m1", Undefined)
m2 == Fn("m2", Undefined)
c1 == Fn("c1", Undefined)

Refs == {GroupRef(i) : i \in 1..Len(groups)}

AddGroupInputs ==
    ({Null, S_c, S_nope} \X Refs) \cup (Refs \X {Null}) \cup {<<S_c, Null>>}

\* Registrations tried while trees are built and collected.
RegisterInputs ==
    { <<Arr(<<S_get>>), S_x, <<hThen>>>>,
      <<Arr(<<S_get>>), S_x, <<fnThen>>>>,
      <<Arr(<<S_get>>), S_x, <<fn>>>>,
      <<S_get, S_x, <<fn>>>> }

\* The argument lists addHandlers is tried on, one per way through its checks.
AddHandlersInputs ==
    RegisterInputs \cup
    { <<S_get, S_x, <<hThen>>>>,
      <<Arr(<<>>), S_x, <<fn>>>>,
      <<S_get, S_nope, <<fn>>>>,
      <<S_get, S_x, <<>>>>,
      <<Arr(<<S_get>>), S_x, <<>>>>,
      <<Null, S_x, <<fn>>>>,
      <<Arr(<<S_blank>>), S_x, <<hThen>>>>,
      <<Arr(<<S_get>>), S_x, <<hBogus>>>>,
      <<Arr(<<S_get>>), S_x, <<GroupRef(1)>>>> }

Middlewares == {m1, m2}
AroundInputs == {Null, Around(m1, m2)}
CatchInputs == {c1, Null}
GroupInputs ==
    { <<Null, Null>>,
      <<S_c, Fn("cbKeep", Undefined)>>,
      <<S_c, Fn("cbHandler", Undefined)>>,
      <<S_c, Fn("cbCatch", Undefined)>>,
      <<S_nope, Fn("cbKeep", Undefined)>>,
      <<Fn("cbHandler", Undefined), Null>> }

---------------------------------------------------------------------------
(* State machine *)

RECURSIVE SumLen(_, _)
SumLen(heap, n) ==
    IF n = 0 THEN 0
    ELSE SumLen(heap, n - 1) + Len(heap[n].items) + Len(heap[n].catchers)
         + Len(heap[n].middlewares.before) + Len(heap[n].middlewares.after)
\* Group instances plus the entries registered in them.
Size(heap) == Len(heap) + SumLen(heap, Len(heap))

NoPrev == [g |-> 0, err |-> "none", routes |-> <<>>]
Call(op, g, args, err) == [op |-> op, g |-> g, args |-> args, err |-> err]
Idle == stack = <<>>

Init ==
    /\ groups = <<NewGroup>>
    /\ lastOp = Call("new", 1, <<Null>>, "none")
    /\ stack = <<>>
    /\ routes = <<>>
    /\ prev = NoPrev
    /\ treeAtCall = <<>>
    /\ beforeLog = <<(<<>>)>>
    /\ afterLog = <<(<<>>)>>

\* What every builder call does to the collect history.
BuilderCall(op, g, args, r, heap) ==
    /\ Size(heap) <= MaxSize
    /\ groups' = heap
    /\ lastOp' = Call(op, g, args, r.err)
    /\ routes' = <<>>
    /\ prev' = NoPrev
    /\ treeAtCall' = <<>>
    /\ UNCHANGED stack

\* const g = new Group()
Construct ==
    /\ Idle
    /\ BuilderCall("new", Len(groups) + 1, <<Null>>, Group(Null), Append(groups, Group(Null).this))
    /\ beforeLog' = Append(beforeLog, <<>>)
    /\ afterLog' = Append(afterLog, <<>>)

AddGroup(g, path, sub) ==
    /\ Idle
    /\ LET r == addGroup(groups[g], path, sub)
       IN  BuilderCall("addGroup", g, <<path, sub>>, r, [groups EXCEPT ![g] = r.this])
    /\ UNCHANGED <<beforeLog, afterLog>>

AddHandlers(g, methods, path, handlers) ==
    /\ Idle
    /\ LET r == addHandlers(groups[g], methods, path, handlers)
       IN  BuilderCall("addHandlers", g, <<methods, path, Arr(handlers)>>, r,
                       [groups EXCEPT ![g] = r.this])
    /\ UNCHANGED <<beforeLog, afterLog>>

After(g, middleware) ==
    /\ Idle
    /\ LET r == after(groups[g], middleware)
       IN  BuilderCall("after", g, <<middleware>>, r, [groups EXCEPT ![g] = r.this])
    /\ afterLog' = [afterLog EXCEPT ![g] = Append(@, middleware)]
    /\ UNCHANGED beforeLog

Before(g, middleware) ==
    /\ Idle
    /\ LET r == before(groups[g], middleware)
       IN  BuilderCall("before", g, <<middleware>>, r, [groups EXCEPT ![g] = r.this])
    /\ beforeLog' = [beforeLog EXCEPT ![g] = Append(@, middleware)]
    /\ UNCHANGED afterLog

AroundOp(g, middleware) ==
    /\ Idle
    /\ LET r == around(groups[g], middleware)
       IN  /\ BuilderCall("around", g, <<middleware>>, r, [groups EXCEPT ![g] = r.this])
           /\ beforeLog' = IF r.err = "none"
                           THEN [beforeLog EXCEPT ![g] = Append(@, middleware.before)]
                           ELSE beforeLog
           /\ afterLog' = IF r.err = "none"
                          THEN [afterLog EXCEPT ![g] = Append(@, middleware.after)]
                          ELSE afterLog

Catch(g, callback) ==
    /\ Idle
    /\ LET r == catch(groups[g], callback)
       IN  BuilderCall("catch", g, <<callback>>, r, [groups EXCEPT ![g] = r.this])
    /\ UNCHANGED <<beforeLog, afterLog>>

GroupOp(g, path, cb) ==
    /\ Idle
    /\ LET r == group(groups, g, path, cb)
       IN  BuilderCall("group", g, <<path, cb>>, r, r.heap)
    /\ beforeLog' = Append(beforeLog, <<>>)
    /\ afterLog' = Append(afterLog, <<>>)

\* g.collectRoutes() is called.
CollectCall(g) ==
    /\ Idle
    /\ stack' = <<Frame(g)>>
    /\ prev' = IF lastOp.op = "collectRoutes"
               THEN [g |-> lastOp.g, err |-> lastOp.err, routes |-> routes]
               ELSE NoPrev
    /\ lastOp' = Call("collectRoutes", g, <<>>, "pending")
    /\ routes' = <<>>
    /\ treeAtCall' = groups
    /\ UNCHANGED <<groups, beforeLog, afterLog>>

\* CollectStep with a loop that takes each item off this.items (shift)
\* instead of iterating over the list.
CollectStep_shift ==
    /\ ~Idle
    /\ LET s == collectStep(groups, stack)
           top == stack[Len(stack)]
       IN  /\ s.kind = "call" => Len(stack) < MaxDepth
           /\ stack' = s.stack
           /\ routes' = s.routes
           /\ lastOp' = IF s.stack = <<>> THEN [lastOp EXCEPT !.err = s.err] ELSE lastOp
           /\ groups' = IF top.i <= Len(groups[top.group].items)
                         THEN [groups EXCEPT ![top.group].items = Tail(@)]
                         ELSE groups
    /\ UNCHANGED <<prev, treeAtCall, beforeLog, afterLog>>

\* The collectRoutes in progress runs its next step.
CollectStep ==
    /\ ~Idle
    /\ LET s == collectStep(groups, stack)
       IN  /\ s.kind = "call" => Len(stack) < MaxDepth
           /\ stack' = s.stack
           /\ routes' = s.routes
           /\ lastOp' = IF s.stack = <<>> THEN [lastOp EXCEPT !.err = s.err] ELSE lastOp
    /\ UNCHANGED <<groups, prev, treeAtCall, beforeLog, afterLog>>

Next ==
    \/ Construct
    \/ \E g \in 1..Len(groups) : \E a \in AddGroupInputs : AddGroup(g, a[1], a[2])
    \/ \E g \in 1..Len(groups) : \E a \in RegisterInputs : AddHandlers(g, a[1], a[2], a[3])
    \/ \E g \in 1..Len(groups) : \E m \in Middlewares : After(g, m)
    \/ \E g \in 1..Len(groups) : \E m \in Middlewares : Before(g, m)
    \/ \E g \in 1..Len(groups) : \E m \in AroundInputs : AroundOp(g, m)
    \/ \E g \in 1..Len(groups) : \E c \in CatchInputs : Catch(g, c)
    \/ \E g \in 1..Len(groups) : \E a \in GroupInputs : GroupOp(g, a[1], a[2])
    \/ \E g \in 1..Len(groups) : CollectCall(g)
    \/ CollectStep

Spec == Init /\ [][Next]_vars

\* addHandlers on every argument list of AddHandlersInputs, and collectRoutes.
NextAddHandlers ==
    \/ Construct
    \/ \E g \in 1..Len(groups) : \E a \in AddHandlersInputs : AddHandlers(g, a[1], a[2], a[3])
    \/ \E g \in 1..Len(groups) : CollectCall(g)
    \/ CollectStep

SpecAddHandlers == Init /\ [][NextAddHandlers]_vars

---------------------------------------------------------------------------
(* Vocabulary of the claims *)

BuilderOps == {"addGroup", "addHandlers", "after", "around", "before", "catch", "group"}
\* The last call threw.
Failed == lastOp.err \notin {"none", "pending"}
\* A collectRoutes call has ended (returned or thrown) and nothing was called since.
Collected == Idle /\ lastOp.op = "collectRoutes"

RECURSIVE Reverse(_)
Reverse(s) == IF s = <<>> THEN <<>> ELSE Append(Reverse(Tail(s)), Head(s))

\* Every group item reachable from g within `fuel` levels holds a Group, and
\* no chain of group items from g is longer than `fuel`: the tree below g is
\* a finite tree of groups.
RECURSIVE IsTree(_, _, _)
IsTree(heap, g, fuel) ==
    /\ fuel > 0
    /\ \A i \in 1..Len(heap[g].items) :
          heap[g].items[i].type = "group" =>
             /\ IsGroup(heap[g].items[i].group)
             /\ IsTree(heap, heap[g].items[i].group.id, fuel - 1)

\* The route list the design prescribes for the tree below g: depth-first in
\* item order; each handler item is a route, each subgroup's routes get the
\* item's prefix, and the group wraps every one of them in
\* before ++ chain ++ after ++ catchers.
ExpectedWrap(G, r) ==
    [r EXCEPT !.handlers =
        G.middlewares.before \o @ \o G.middlewares.after
        \o [i \in 1..Len(G.catchers) |->
               Obj(Str(<<"G", "r", "o", "u", "p", "C", "a", "t", "c", "h", "e", "r", "_",
                         ToString(i - 1)>>), S_catch, G.catchers[i])]]

RECURSIVE ExpectedFrom(_, _, _)
ExpectedFrom(heap, g, n) ==
    IF n = 0 THEN <<>>
    ELSE LET G == heap[g]
             item == G.items[n]
             sub == IF item.type = "group"
                    THEN LET below == ExpectedFrom(heap, item.group.id,
                                                   Len(heap[item.group.id].items))
                             pre == IF IsString(item.path) THEN item.path.s ELSE <<>>
                         IN  [j \in 1..Len(below) |->
                                 [below[j] EXCEPT !.path = pre \o @]]
                    ELSE <<[methods |-> item.methods, path |-> item.path.s,
                            handlers |-> item.handlers]>>
         IN  ExpectedFrom(heap, g, n - 1) \o [j \in 1..Len(sub) |-> ExpectedWrap(G, sub[j])]

Expected(g) == ExpectedFrom(groups, g, Len(groups[g].items))

\* collectRoutes ended on a finite tree of groups.
CollectedTree == Collected /\ IsTree(groups, lastOp.g, Len(groups))

---------------------------------------------------------------------------
(* Claims *)

\* C1: collectRoutes returns, for every tree built through the builder, routes
\* whose handler chains are layered: each group on the way out contributes
\* its before list in front and its after list and catchers behind the chain
\* produced below it.
C1_LayeredChains ==
    CollectedTree =>
        /\ lastOp.err = "none"
        /\ Len(routes) = Len(Expected(lastOp.g))
        /\ \A j \in 1..Len(routes) : routes[j].handlers = Expected(lastOp.g)[j].handlers

\* C2: registering a bare callback fn with valid methods and path succeeds and
\* stores the handler {name: null, respondsTo: then, callback: fn}; a group
\* holding nothing but that one registration collects to exactly one route
\* with the same methods, path and that handler.
C2_SingleHandlerRoute ==
    /\ ( /\ lastOp.op = "addHandlers"
         /\ lastOp.args[1] \in {S_get, Arr(<<S_get>>)}
         /\ lastOp.args[2] = S_x
         /\ lastOp.args[3] = Arr(<<fn>>) )
       => /\ lastOp.err = "none"
          /\ groups[lastOp.g].items # <<>>
          /\ LET item == groups[lastOp.g].items[Len(groups[lastOp.g].items)]
             IN  item.type = "handler" /\ item.handlers = <<Obj(Null, S_then, fn)>>
    /\ ( /\ Collected
         /\ groups[lastOp.g] =
               [NewGroup EXCEPT !.items = <<[type |-> "handler", methods |-> Arr(<<S_get>>),
                                            path |-> S_x,
                                            handlers |-> <<Obj(Null, S_then, fn)>>]>>] )
       => /\ lastOp.err = "none"
          /\ Len(routes) = 1
          /\ routes[1].methods = Arr(<<S_get>>)
          /\ routes[1].path = S_x
          /\ routes[1].handlers = <<Obj(Null, S_then, fn)>>

\* C3: catch with a callable callback succeeds and appends the callback to
\* the group's catchers (so that routes end with its GroupCatcher_<i> handler).
C3_CatchAppends ==
    (lastOp.op = "catch" /\ IsFunction(lastOp.args[1])) =>
        /\ lastOp.err = "none"
        /\ groups[lastOp.g].catchers # <<>>
        /\ groups[lastOp.g].catchers[Len(groups[lastOp.g].catchers)] = lastOp.args[1]

\* C4: a group's before list is the middlewares given to before (directly or
\* as the before half of around) in reverse call order, and its after list
\* is those given to after (or as the after half of around) in call order.
C4_MiddlewareOrder ==
    \A g \in 1..Len(groups) :
        /\ groups[g].middlewares.before = Reverse(beforeLog[g])
        /\ groups[g].middlewares.after = afterLog[g]

C4_Witness ==
    \E g \in 1..Len(groups) :
        /\ beforeLog[g] = <<m1, m2>>
        /\ groups[g].middlewares.before = <<m2, m1>>
        /\ afterLog[g] # <<>>

\* C5: collectRoutes returns exactly one route per handler item reachable
\* from the group, in depth-first pre-order of the items.
C5_PreOrder ==
    CollectedTree =>
        /\ lastOp.err = "none"
        /\ Len(routes) = Len(Expected(lastOp.g))
        /\ \A j \in 1..Len(routes) : routes[j].methods = Expected(lastOp.g)[j].methods

\* C6: every handler item reachable from the collected group yields a route
\* whose path is the prefixes of the group items above it, outermost first,
\* followed by the item's own path.
C6_PrefixedPaths ==
    CollectedTree =>
        /\ lastOp.err = "none"
        /\ Len(routes) = Len(Expected(lastOp.g))
        /\ \A j \in 1..Len(routes) : routes[j].path = Str(Expected(lastOp.g)[j].path)

\* C7: addHandlers reports the defect of its arguments: an empty method list
\* gives InvalidMethods, a path not starting with "/" gives InvalidPath, no
\* handlers at all gives InvalidHandlers.
C7_ErrorKinds ==
    lastOp.op = "addHandlers" =>
        /\ lastOp.args = <<Arr(<<>>), S_x, Arr(<<fn>>)>> => lastOp.err = "InvalidMethodsError"
        /\ lastOp.args = <<S_get, S_nope, Arr(<<fn>>)>> => lastOp.err = "InvalidPathError"
        /\ lastOp.args = <<S_get, S_x, Arr(<<>>)>> => lastOp.err = "InvalidHandlersError"

\* C8: collectRoutes always ends.  The traversal is deterministic and reads
\* a tree nothing changes meanwhile, so it ends exactly if it never enters a
\* group whose own activation is still on the call stack.
C8_CollectEnds ==
    \A i, j \in 1..Len(stack) : i < j => stack[i].group # stack[j].group

\* C9: collectRoutes leaves every group as it found it, and two calls on the
\* same group with no builder call in between end alike: same outcome, same
\* route sequence.
C9_CollectPure ==
    lastOp.op = "collectRoutes" =>
        /\ groups = treeAtCall
        /\ (Collected /\ prev.g = lastOp.g) =>
              (prev.err = lastOp.err /\ prev.routes = routes)

C9_Witness ==
    /\ Collected
    /\ prev.g = lastOp.g
    /\ \E i \in 1..Len(groups[lastOp.g].items) : groups[lastOp.g].items[i].type = "group"
    /\ groups[lastOp.g].middlewares.before # <<>>

\* C10: a builder call that fails leaves every existing group exactly as it
\* was: items, before, after and catchers unchanged.
C10_FailedCallChangesNothing ==
    [][(lastOp'.op \in BuilderOps /\ lastOp'.err # "none")
          => \A g \in 1..Len(groups) : groups'[g] = groups[g]]_vars

C10_Witness ==
    /\ Failed
    /\ lastOp.op \in {"addGroup", "group"}
    /\ groups[lastOp.g].items # <<>>

====
